---- MODULE Spec2Model ----
(***************************************************************************)
(* scalable_linked_list: an append-only list stored as a summary item and  *)
(* numbered data pages in a key-value store.  The store's items are the    *)
(* shared state; every store round-trip of a call is one step.             *)
(***************************************************************************)
EXTENDS Integers, Sequences, FiniteSets, TLC

\* ------------------------------------------------------------------ bounds
MaxAppends == 3
MaxSeqAppends == 5
MaxBlankAppends == 3
MaxFaultAppends == 3
MaxRaceAppends == 4
MaxPerPage == 2

DefaultMaxElementPerPage == 50

Appenders == {"a1", "a2"}
SeqAppender == "a1"
ListId == "L"
Metadatas == {"m1", "m2"}
WalkSizes == {1, MaxAppends + 1}

VARIABLES
    config,     \* config.maxElementPerPage
    summary,    \* the item <id>_summary, or NoItem
    pages,      \* page number -> data_list, for the data pages that exist; the
                \* values are objects {val: k}, as atomicAppend requires, k
                \* being the number of the call
    app,        \* per appender: the position of its atomicAppend call
    nextVal,    \* number of atomicAppend calls that reached the store
    returned,   \* history: what the resolved atomicAppend calls returned, and
                \* which calls had resolved when each was invoked
    incrLog,    \* history: the outcome of every incrementCounter call
    created,    \* the last idempotentCreate call: its outcome and its metadata
    rd,         \* the reader: position of its retrieve call
    got         \* the last getCurrentPage, getPage or retrieve call and its outcome

vars == <<config, summary, pages, app, nextVal, returned, incrLog, created, rd, got>>

\* ------------------------------------------------------- JavaScript values
Undefined == [t |-> "undefined", n |-> 0]
Null == [t |-> "null", n |-> 0]
Num(k) == [t |-> "number", n |-> k]
\* the decimal string of the integer k (k + '')
Str(k) == [t |-> "string", n |-> k]

Truthy(v) ==
    CASE v.t = "number" -> v.n # 0
      [] v.t = "string" -> TRUE
      [] OTHER -> FALSE

parseInt(v) == v.n

Min(a, b) == IF a < b THEN a ELSE b

Reverse(s) == [i \in 1..Len(s) |-> s[Len(s) + 1 - i]]

\* ------------------------------------------------------------------ store
NoItem == [exists |-> FALSE, currentPage |-> 0, metadata |-> "none"]

defaultPageSummary(metadata) ==
    [exists |-> TRUE, currentPage |-> 0, metadata |-> metadata]

getDefaultPageData == <<>>

PageExists(p) == p \in DOMAIN pages

\* put with ConditionExpression '#i <> :val' on the summary key
PutSummaryOverwrite(item) == item
PutSummaryIfAbsent(item) == IF summary.exists THEN summary ELSE item

\* put with ConditionExpression '#i <> :val' on a page key
PutPageOverwrite(p) == [q \in (DOMAIN pages) \cup {p} |-> IF q = p THEN getDefaultPageData ELSE pages[q]]
PutPageIfAbsent(p) == IF PageExists(p) THEN pages ELSE pages @@ (p :> getDefaultPageData)

\* dynamoIncrementer.incrementCounter: add 1 to the counter provided it equals floor
incrementCounterAtLeast(current, floor) ==
    IF current >= floor THEN [ok |-> TRUE, value |-> current + 1]
                        ELSE [ok |-> FALSE, value |-> current]
incrementCounter(current, floor) ==
    IF current = floor THEN [ok |-> TRUE, value |-> current + 1]
                       ELSE [ok |-> FALSE, value |-> current]

\* ---------------------------------------------------------- append engine
\* the store operations a call in flight has made so far
NoOps == [read |-> 0, append |-> 0, create |-> 0, increment |-> 0]

IdleApp == [pc |-> "idle", currentPage |-> 0, val |-> 0, attempt |-> 0,
            n |-> 0, incremented |-> 0, seen |-> {}, ops |-> NoOps, before |-> {}]

AppDone == {"idle", "resolved", "rejected", "abandoned"}

\* const result = { page_id: currentPage, sequence_id: numberOfElementInPage - 1 }
resultOfOffByOne(currentPage, n) == [page_id |-> currentPage, sequence_id |-> n]
resultOf(currentPage, n) == [page_id |-> currentPage, sequence_id |-> n - 1]

\* the call of appender a resolves with result
Resolve(a, result) ==
    returned \cup {[val |-> app[a].val, result |-> result, seen |-> app[a].seen,
                     before |-> app[a].before]}

pageIsFullStrict(n) == n > config
pageIsFullEarly(n) == n >= config - 1
pageIsFull(n) == n >= config

pageToCreateAfter(incremented) == incremented + 1
pageToCreate(incremented) == incremented

Finish(a, outcome) == [app EXCEPT ![a] = [IdleApp EXCEPT !.pc = outcome, !.val = app[a].val]]

\* the call of appender a has made one more store operation
Did(a, kind) == [app[a].ops EXCEPT ![kind] = @ + 1]

\* every in-flight call observes the new counter value
Observe(f, c) == [b \in Appenders |->
    IF f[b].pc \in AppDone THEN f[b] ELSE [f[b] EXCEPT !.seen = @ \cup {c}]]

\* if (numberOfMaximumElement) config.maxElementPerPage = numberOfMaximumElement
Configure(n) ==
    /\ config' = IF n # 0 THEN n ELSE config
    /\ UNCHANGED <<summary, pages, app, nextVal, returned, incrLog, created, rd, got>>

NoCreate == [outcome |-> "none", metadata |-> "none"]

\* the put is conditional and its rejection has no handler
IdempotentCreate(metadata) ==
    /\ summary' = PutSummaryIfAbsent(defaultPageSummary(metadata))
    /\ created' = [outcome |-> IF summary.exists THEN "rejected" ELSE "resolved",
                   metadata |-> metadata]
    /\ UNCHANGED <<config, pages, app, nextVal, returned, incrLog, rd, got>>

\* getCurrentPage: data.currentPage of the summary item; a missing item makes
\* data undefined and the read a TypeError, which rejects the promise
getCurrentPageOrZero(item) == [rejected |-> FALSE, currentPage |-> item.currentPage]
getCurrentPage(item) ==
    IF item.exists THEN [rejected |-> FALSE, currentPage |-> item.currentPage]
                   ELSE [rejected |-> TRUE, currentPage |-> 0]

\* atomicAppend: getCurrentPage, then atomicAppendImpl(id, currentPage, value)
AtomicAppend(a) ==
    /\ app[a].pc \in AppDone
    /\ IF ~getCurrentPage(summary).rejected
       THEN /\ app' = [app EXCEPT ![a] = [IdleApp EXCEPT !.pc = "append",
                          !.currentPage = getCurrentPage(summary).currentPage, !.val = nextVal,
                          !.seen = {getCurrentPage(summary).currentPage},
                          !.before = {r.val : r \in returned},
                          !.ops = [NoOps EXCEPT !.read = 1]]]
            /\ nextVal' = nextVal + 1
       ELSE /\ app' = [app EXCEPT ![a] = [IdleApp EXCEPT !.pc = "rejected"]]
            /\ UNCHANGED nextVal
    /\ UNCHANGED <<config, summary, pages, returned, incrLog, created, rd, got>>

\* appendDataToPage and the .then handler up to the next store call
AppendDataToPage(a) ==
    /\ app[a].pc = "append"
    /\ LET p == app[a].currentPage IN
       IF PageExists(p)
       THEN LET n == Len(pages[p]) + 1 IN
            /\ pages' = [pages EXCEPT ![p] = Append(@, [val |-> app[a].val])]
            /\ IF pageIsFull(n)
               THEN /\ app' = [app EXCEPT ![a].pc = "increment", ![a].n = n,
                                              ![a].ops = Did(a, "append")]
                    /\ UNCHANGED returned
               ELSE /\ app' = Finish(a, "resolved")
                    /\ returned' = Resolve(a, resultOf(p, n))
       ELSE /\ app' = [app EXCEPT ![a].pc = "createMissing", ![a].ops = Did(a, "append")]
            /\ UNCHANGED <<pages, returned>>
    /\ UNCHANGED <<config, summary, nextVal, incrLog, created, rd, got>>

\* if (attempt > 1) throw new Error()
retryExhaustedEarly(attempt) == attempt >= 1
retryNeverExhausted(attempt) == FALSE
retryExhaustedLate(attempt) == attempt > 2
retryExhausted(attempt) == attempt > 1

\* the .catch handler: createNewPage(id, currentPage), then attempt + 1
CreateMissingPage(a) ==
    /\ app[a].pc = "createMissing"
    /\ pages' = PutPageIfAbsent(app[a].currentPage)
    /\ app' = IF retryExhausted(app[a].attempt + 1)
              THEN Finish(a, "rejected")
              ELSE [app EXCEPT ![a].pc = "append", ![a].attempt = @ + 1,
                                ![a].ops = Did(a, "create")]
    /\ UNCHANGED <<config, summary, nextVal, returned, incrLog, created, rd, got>>

IncreasePageCounter(a) ==
    /\ app[a].pc = "increment"
    /\ LET p == app[a].currentPage
           r == incrementCounter(summary.currentPage, p) IN
       /\ summary' = [summary EXCEPT !.currentPage = r.value]
       /\ incrLog' = incrLog \cup {[val |-> app[a].val, floor |-> p, ok |-> r.ok, after |-> r.value]}
       /\ IF r.ok /\ r.value # 0 /\ r.value > p
          THEN /\ app' = Observe([app EXCEPT ![a].pc = "createNext", ![a].incremented = r.value,
                                                  ![a].ops = Did(a, "increment")], r.value)
               /\ UNCHANGED returned
          ELSE /\ app' = Finish(a, "resolved")
               /\ returned' = Resolve(a, resultOf(p, app[a].n))
    /\ UNCHANGED <<config, pages, nextVal, created, rd, got>>

CreateNextPage(a) ==
    /\ app[a].pc = "createNext"
    /\ pages' = PutPageIfAbsent(pageToCreate(app[a].incremented))
    /\ app' = Finish(a, "resolved")
    /\ returned' = Resolve(a, resultOf(app[a].currentPage, app[a].n))
    /\ UNCHANGED <<config, summary, nextVal, incrLog, created, rd, got>>

\* the update of appendDataToPage fails with an error other than
\* ValidationException (the request may or may not have been applied): the
\* .catch handler rethrows
AppendTransportError(a, applied) ==
    /\ app[a].pc = "append"
    /\ pages' = IF applied /\ PageExists(app[a].currentPage)
                THEN [pages EXCEPT ![app[a].currentPage] = Append(@, [val |-> app[a].val])]
                ELSE pages
    /\ app' = Finish(a, "rejected")
    /\ UNCHANGED <<config, summary, nextVal, returned, incrLog, created, rd, got>>

\* the caller gives up on a call in flight
Abandon(a) ==
    /\ app[a].pc \notin AppDone
    /\ app' = Finish(a, "abandoned")
    /\ UNCHANGED <<config, summary, pages, nextVal, returned, incrLog, created, rd, got>>

\* ------------------------------------------------------- retrieval engine
NoPointer == [page_id |-> Null, sequence_id |-> Null]

IdleRd == [pc |-> "idle", op |-> "none", N |-> 0, pointer |-> NoPointer,
           page |-> 0, fromSequence |-> Undefined, acc |-> <<>>, out |-> <<>>,
           start |-> 0, reads |-> 0]

RdDone == {"idle", "rejected", "thrown", "failed"}

\* item.page_id = currentPage + '', item.sequence_id = i + ''
indexDataList(data_list, currentPage, resource_id_parent) ==
    [i \in 1..Len(data_list) |->
        [val |-> data_list[i].val, page_id |-> Str(currentPage),
         sequence_id |-> Str(i - 1), resource_id_parent |-> resource_id_parent]]

\* a missing page makes getPageData resolve undefined and data.data_list throw a
\* TypeError; the .catch turns it into an undefined data_list
retrieveDataListNoCatch(pageId) ==
    IF PageExists(pageId)
    THEN [defined |-> TRUE, threw |-> FALSE, list |-> indexDataList(pages[pageId], pageId, ListId)]
    ELSE [defined |-> FALSE, threw |-> TRUE, list |-> <<>>]
retrieveDataList(pageId) ==
    IF PageExists(pageId)
    THEN [defined |-> TRUE, threw |-> FALSE, list |-> indexDataList(pages[pageId], pageId, ListId)]
    ELSE [defined |-> FALSE, threw |-> FALSE, list |-> <<>>]

\* data_list.splice(fromSequence, data_list.length - fromSequence)
splice(data_list, fromSequence) == SubSeq(data_list, 1, Min(fromSequence, Len(data_list)))

\* if (fromSequence) data_list.splice(...)
cutAboveSequence(data_list, fromSequence) ==
    IF Truthy(fromSequence) THEN splice(data_list, fromSequence.n) ELSE data_list

inReadOrder(data_list) == data_list
mostRecentFirst(data_list) == Reverse(data_list)

\* the .then handler of one page fetch: cut, reverse, concatenate
concatPage(retrievedData, dl, fromSequence) ==
    IF dl.defined /\ Len(dl.list) > 0
    THEN retrievedData \o mostRecentFirst(cutAboveSequence(dl.list, fromSequence))
    ELSE retrievedData

\* if (retrievedData.length > numberOfItems) retrievedData.slice(0, numberOfItems)
sliceAll(retrievedData, numberOfItems) == retrievedData
slice(retrievedData, numberOfItems) ==
    IF Len(retrievedData) > numberOfItems
    THEN SubSeq(retrievedData, 1,
                IF numberOfItems < 0 THEN Len(retrievedData) + numberOfItems ELSE numberOfItems)
    ELSE retrievedData

getValidPointer(startAfterPointer) ==
    LET page == parseInt(startAfterPointer.page_id)
        seq == parseInt(startAfterPointer.sequence_id)
        page1 == IF seq <= 0 THEN page - 1 ELSE page
        seq1 == IF seq <= 0 THEN Null ELSE Num(seq)
    IN IF page1 < 0 THEN [page_id |-> 0, sequence_id |-> Num(0)]
                    ELSE [page_id |-> page1, sequence_id |-> seq1]

\* retrieveNElement on a store that no one writes during the walk
RECURSIVE recursivelyRetrieveData(_, _, _, _)
recursivelyRetrieveData(currentPage, fromSequence, numberOfItems, retrievedData) ==
    IF currentPage < 0 THEN retrievedData
    ELSE LET acc == concatPage(retrievedData, retrieveDataList(currentPage), fromSequence) IN
         IF Len(acc) < numberOfItems
         THEN recursivelyRetrieveData(currentPage - 1, Undefined, numberOfItems, acc)
         ELSE acc

retrieveNElement(fromPage, fromSequence, numberOfItems) ==
    slice(recursivelyRetrieveData(fromPage, fromSequence, numberOfItems, <<>>), numberOfItems)

\* positions of the stored elements, as the decorated items carry them (strings)
\* and as atomicAppend returns them (numbers)
StoredPositions == UNION {{<<p, i - 1>> : i \in 1..Len(pages[p])} : p \in DOMAIN pages}
ValueAt(pos) == pages[pos[1]][pos[2] + 1].val
ItemPointers == {[page_id |-> Str(pos[1]), sequence_id |-> Str(pos[2])] : pos \in StoredPositions}
ResultPointers == {[page_id |-> Num(r.result.page_id), sequence_id |-> Num(r.result.sequence_id)] : r \in returned}
Pointers == ItemPointers \cup ResultPointers \cup {NoPointer}

Sizes(appends) == 0..(appends + 1)

\* retrieveLastMostRecent: getCurrentPage, then retrieveNElement(id, currentPage, null, ...)
RetrieveLastMostRecent(numberOfItems) ==
    /\ rd.pc \in RdDone
    /\ rd' = IF ~getCurrentPage(summary).rejected
             THEN [IdleRd EXCEPT !.pc = "walk", !.op = "last", !.N = numberOfItems,
                                 !.page = getCurrentPage(summary).currentPage,
                                 !.start = getCurrentPage(summary).currentPage,
                                 !.fromSequence = Null]
             ELSE [IdleRd EXCEPT !.pc = "rejected", !.op = "last", !.N = numberOfItems]
    /\ UNCHANGED <<config, summary, pages, app, nextVal, returned, incrLog, created, got>>

RetrieveNextMostRecent(startAfterPointer, numberOfItems) ==
    /\ rd.pc \in RdDone
    /\ rd' = IF ~Truthy(startAfterPointer.page_id) \/ ~Truthy(startAfterPointer.sequence_id)
             THEN [IdleRd EXCEPT !.pc = "thrown", !.op = "next", !.N = numberOfItems,
                                 !.pointer = startAfterPointer]
             ELSE LET pointer == getValidPointer(startAfterPointer) IN
                  [IdleRd EXCEPT !.pc = "walk", !.op = "next", !.N = numberOfItems,
                                 !.pointer = startAfterPointer,
                                 !.page = pointer.page_id, !.start = pointer.page_id,
                                 !.fromSequence = pointer.sequence_id]
    /\ UNCHANGED <<config, summary, pages, app, nextVal, returned, incrLog, created, got>>

\* recursivelyRetrieveData(currentPage - 1, completedCallback)
pageAgain(currentPage) == currentPage
pageBelow(currentPage) == currentPage - 1

\* one page fetch of recursivelyRetrieveData and its .then handler; the last
\* one runs completedCallback, which hands the result to the caller's callback.
\* A fetch that rejected would leave the walk without a handler ("failed").
RetrievePage ==
    /\ rd.pc = "walk"
    /\ LET dl == retrieveDataList(rd.page)
           acc == concatPage(rd.acc, dl, rd.fromSequence) IN
       rd' = IF dl.threw
             THEN [rd EXCEPT !.pc = "failed", !.acc = <<>>, !.fromSequence = Undefined, !.page = 0,
                             !.reads = @ + 1]
             ELSE IF Len(acc) < rd.N /\ pageBelow(rd.page) >= 0
             THEN [rd EXCEPT !.acc = acc, !.fromSequence = Undefined, !.page = pageBelow(@),
                             !.reads = @ + 1]
             ELSE [rd EXCEPT !.pc = "callback", !.acc = <<>>, !.fromSequence = Undefined,
                             !.page = 0, !.out = slice(acc, rd.N), !.reads = @ + 1]
    /\ UNCHANGED <<config, summary, pages, app, nextVal, returned, incrLog, created, got>>

\* the caller's callback returns
CallbackReturns ==
    /\ rd.pc = "callback"
    /\ rd' = IdleRd
    /\ UNCHANGED <<config, summary, pages, app, nextVal, returned, incrLog, created, got>>

\* ---------------------------------------------------------- single reads
SummaryKey == [t |-> "summary", n |-> 0]
PageKey(p) == [t |-> "page", n |-> p]

ItemExists(key) == IF key.t = "summary" THEN summary.exists ELSE PageExists(key.n)

\* found: the item was in the table; defined: the call resolved with a value
\* other than undefined (for retrieve: a data other than undefined)
NoCall == [op |-> "none", key |-> SummaryKey, found |-> FALSE, outcome |-> "none",
           defined |-> FALSE, value |-> Undefined, page_id |-> Undefined, data |-> <<>>]

\* getPageData resolves the item, or undefined when there is none;
\* getCurrentPage reads data.currentPage and so rejects on undefined
GetCurrentPage ==
    /\ got' = IF ~getCurrentPage(summary).rejected
              THEN [NoCall EXCEPT !.op = "getCurrentPage", !.found = TRUE, !.outcome = "resolved",
                                  !.defined = TRUE,
                                  !.value = Num(getCurrentPage(summary).currentPage)]
              ELSE [NoCall EXCEPT !.op = "getCurrentPage", !.outcome = "rejected"]
    /\ UNCHANGED <<config, summary, pages, app, nextVal, returned, incrLog, created, rd>>

\* getPage(id, pageId) is getPageData(id, pageId)
GetPage(key) ==
    /\ got' = [NoCall EXCEPT !.op = "getPage", !.key = key, !.found = ItemExists(key),
                             !.outcome = "resolved", !.defined = ItemExists(key),
                             !.value = IF key.t = "summary" /\ summary.exists
                                       THEN Num(summary.currentPage) ELSE Undefined,
                             !.data = IF key.t = "page" /\ PageExists(key.n)
                                      THEN pages[key.n] ELSE <<>>]
    /\ UNCHANGED <<config, summary, pages, app, nextVal, returned, incrLog, created, rd>>

\* retrieve(id, pageId) of a data page: retrieveDataList, then addPageIdInResult
Retrieve(pageId) ==
    /\ LET dl == retrieveDataList(pageId) IN
       got' = [NoCall EXCEPT !.op = "retrieve", !.key = PageKey(pageId),
                             !.found = PageExists(pageId), !.outcome = "resolved",
                             !.defined = dl.defined, !.page_id = Str(pageId), !.data = dl.list]
    /\ UNCHANGED <<config, summary, pages, app, nextVal, returned, incrLog, created, rd>>

Init ==
    /\ config = DefaultMaxElementPerPage
    /\ summary = NoItem
    /\ pages = <<>>
    /\ app = [a \in Appenders |-> IdleApp]
    /\ nextVal = 0
    /\ returned = {}
    /\ incrLog = {}
    /\ created = NoCreate
    /\ rd = IdleRd
    /\ got = NoCall

\* the configuration is set before the list is used and read-only afterwards
AtStartup == ~summary.exists

\* the append protocol: configuration, creation, concurrent appenders
Next ==
    \/ \E n \in 1..MaxPerPage : AtStartup /\ Configure(n)
    \/ \E m \in Metadatas : IdempotentCreate(m)
    \/ \E a \in Appenders : nextVal < MaxAppends /\ AtomicAppend(a)
    \/ \E a \in Appenders : AppendDataToPage(a)
    \/ \E a \in Appenders : CreateMissingPage(a)
    \/ \E a \in Appenders : IncreasePageCounter(a)
    \/ \E a \in Appenders : CreateNextPage(a)
    \/ \E a \in Appenders : Abandon(a)

Spec == Init /\ [][Next]_vars

\* a reader walking the list while the appenders run
WalkNext ==
    \/ \E n \in 1..MaxPerPage : AtStartup /\ Configure(n)
    \/ ~summary.exists /\ IdempotentCreate("m1")
    \/ \E a \in Appenders : nextVal < MaxAppends /\ AtomicAppend(a)
    \/ \E a \in Appenders : AppendDataToPage(a)
    \/ \E a \in Appenders : CreateMissingPage(a)
    \/ \E a \in Appenders : IncreasePageCounter(a)
    \/ \E a \in Appenders : CreateNextPage(a)
    \/ \E a \in Appenders : Abandon(a)
    \/ \E n \in WalkSizes : RetrieveLastMostRecent(n)
    \/ \E ptr \in ItemPointers, n \in WalkSizes : RetrieveNextMostRecent(ptr, n)
    \/ RetrievePage
    \/ CallbackReturns

SpecWalk == Init /\ [][WalkNext]_vars

\* one caller issuing its calls one after another, as the test suite does
SeqIdle == app[SeqAppender].pc \in AppDone /\ rd.pc \in RdDone

\* the single caller has no append in flight
SeqQuiet == app[SeqAppender].pc \in AppDone

SeqNext ==
    \/ \E n \in 1..MaxPerPage : AtStartup /\ SeqIdle /\ Configure(n)
    \/ \E m \in Metadatas : SeqIdle /\ IdempotentCreate(m)
    \/ SeqIdle /\ nextVal < MaxSeqAppends /\ AtomicAppend(SeqAppender)
    \/ AppendDataToPage(SeqAppender)
    \/ CreateMissingPage(SeqAppender)
    \/ IncreasePageCounter(SeqAppender)
    \/ CreateNextPage(SeqAppender)
    \/ \E n \in Sizes(MaxSeqAppends) : SeqIdle /\ RetrieveLastMostRecent(n)
    \/ \E ptr \in Pointers, n \in Sizes(MaxSeqAppends) : SeqIdle /\ RetrieveNextMostRecent(ptr, n)
    \/ RetrievePage
    \/ CallbackReturns

SpecSeq == Init /\ [][SeqNext]_vars

\* a data page is removed from the table behind the library's back
DeletePage(q) ==
    /\ PageExists(q)
    /\ pages' = [p \in (DOMAIN pages) \ {q} |-> pages[p]]
    /\ UNCHANGED <<config, summary, app, nextVal, returned, incrLog, created, rd, got>>

\* one caller whose calls may be abandoned, on a table that loses pages; no
\* page is removed while a walk is under way
BlankNext ==
    \/ \E n \in 1..MaxPerPage : AtStartup /\ SeqIdle /\ Configure(n)
    \/ SeqIdle /\ ~summary.exists /\ IdempotentCreate("m1")
    \/ SeqIdle /\ nextVal < MaxBlankAppends /\ AtomicAppend(SeqAppender)
    \/ AppendDataToPage(SeqAppender)
    \/ CreateMissingPage(SeqAppender)
    \/ IncreasePageCounter(SeqAppender)
    \/ CreateNextPage(SeqAppender)
    \/ Abandon(SeqAppender)
    \/ \E q \in DOMAIN pages : rd.pc \in RdDone /\ DeletePage(q)
    \/ \E n \in Sizes(MaxBlankAppends) : SeqIdle /\ RetrieveLastMostRecent(n)
    \/ \E ptr \in Pointers, n \in Sizes(MaxBlankAppends) : SeqIdle /\ RetrieveNextMostRecent(ptr, n)
    \/ RetrievePage
    \/ CallbackReturns

SpecBlank == Init /\ [][BlankNext]_vars

\* two callers whose calls may be abandoned, on a table that loses pages
FaultNext ==
    \/ \E n \in 1..MaxPerPage : AtStartup /\ Configure(n)
    \/ ~summary.exists /\ IdempotentCreate("m1")
    \/ \E a \in Appenders : nextVal < MaxFaultAppends /\ AtomicAppend(a)
    \/ \E a \in Appenders : AppendDataToPage(a)
    \/ \E a \in Appenders : CreateMissingPage(a)
    \/ \E a \in Appenders : IncreasePageCounter(a)
    \/ \E a \in Appenders : CreateNextPage(a)
    \/ \E a \in Appenders : Abandon(a)
    \/ \E q \in DOMAIN pages : DeletePage(q)

SpecFault == Init /\ [][FaultNext]_vars

\* one caller reading single items between its appends
ReadKeys == {SummaryKey} \cup {PageKey(p) : p \in 0..(summary.currentPage + 1)}

ReadNext ==
    \/ \E n \in 1..MaxPerPage : AtStartup /\ SeqQuiet /\ Configure(n)
    \/ SeqQuiet /\ ~summary.exists /\ IdempotentCreate("m1")
    \/ SeqQuiet /\ nextVal < MaxSeqAppends /\ AtomicAppend(SeqAppender)
    \/ AppendDataToPage(SeqAppender)
    \/ CreateMissingPage(SeqAppender)
    \/ IncreasePageCounter(SeqAppender)
    \/ CreateNextPage(SeqAppender)
    \/ Abandon(SeqAppender)
    \/ SeqQuiet /\ GetCurrentPage
    \/ \E key \in ReadKeys : SeqQuiet /\ GetPage(key)
    \/ \E p \in 0..(summary.currentPage + 1) : SeqQuiet /\ Retrieve(p)

SpecRead == Init /\ [][ReadNext]_vars

\* one caller that configures the page size with any integer, at any time
\* between its calls
ConfigInputs == (0 - MaxPerPage)..MaxPerPage

ConfigNext ==
    \/ \E n \in ConfigInputs : SeqQuiet /\ Configure(n)
    \/ SeqQuiet /\ ~summary.exists /\ IdempotentCreate("m1")
    \/ SeqQuiet /\ nextVal < MaxAppends /\ AtomicAppend(SeqAppender)
    \/ AppendDataToPage(SeqAppender)
    \/ CreateMissingPage(SeqAppender)
    \/ IncreasePageCounter(SeqAppender)
    \/ CreateNextPage(SeqAppender)

SpecConfig == Init /\ [][ConfigNext]_vars

\* two callers, each issuing its calls one after another and waiting for
\* each to end
RaceNext ==
    \/ \E n \in 1..MaxPerPage : AtStartup /\ Configure(n)
    \/ ~summary.exists /\ IdempotentCreate("m1")
    \/ \E a \in Appenders : nextVal < MaxRaceAppends /\ AtomicAppend(a)
    \/ \E a \in Appenders : AppendDataToPage(a)
    \/ \E a \in Appenders : CreateMissingPage(a)
    \/ \E a \in Appenders : IncreasePageCounter(a)
    \/ \E a \in Appenders : CreateNextPage(a)

SpecRace == Init /\ [][RaceNext]_vars

\* one caller on a store whose update calls may fail in transport
TransportNext ==
    \/ \E n \in 1..MaxPerPage : AtStartup /\ SeqQuiet /\ Configure(n)
    \/ SeqQuiet /\ ~summary.exists /\ IdempotentCreate("m1")
    \/ SeqQuiet /\ nextVal < MaxSeqAppends /\ AtomicAppend(SeqAppender)
    \/ AppendDataToPage(SeqAppender)
    \/ \E applied \in BOOLEAN : AppendTransportError(SeqAppender, applied)
    \/ CreateMissingPage(SeqAppender)
    \/ IncreasePageCounter(SeqAppender)
    \/ CreateNextPage(SeqAppender)

SpecTransport == Init /\ [][TransportNext]_vars

\* ------------------------------------------------------------------ claims
InFlight(a) == app[a].pc \notin AppDone

\* where the value of call v is stored
PositionsOf(v) == {pos \in StoredPositions : ValueAt(pos) = v}

\* C1: every atomicAppend that resolved has put its value exactly once in the
\* store, in the page it returns, and that page number was a value of
\* currentPage during the call; no call in flight has stored its value twice.
C1_AppendTotality ==
    /\ \A r \in returned :
          /\ Cardinality(PositionsOf(r.val)) = 1
          /\ \A pos \in PositionsOf(r.val) : pos[1] = r.result.page_id
          /\ r.result.page_id \in r.seen
    /\ \A v \in 0..(nextVal - 1) : Cardinality(PositionsOf(v)) <= 1

\* two appenders raced for a missing page and both calls resolved in it
C1_Witness ==
    \E r1, r2 \in returned :
        /\ r1.val # r2.val
        /\ r1.result.page_id = r2.result.page_id
        /\ r1.result.page_id >= 1
        /\ Cardinality(PositionsOf(r1.val)) = 1

\* C2: of the incrementCounter calls made with the same floor p exactly one
\* succeeds, it moves the counter to p + 1, and the counter has advanced once
\* per boundary won.
C2_SingleRolloverWinner ==
    /\ \A e \in incrLog :
          /\ Cardinality({f \in incrLog : f.floor = e.floor /\ f.ok}) = 1
          /\ e.ok => e.after = e.floor + 1
    /\ summary.currentPage = Cardinality({e.floor : e \in {f \in incrLog : f.ok}})

\* two appenders saw the same page full; one won the increment, one lost
C2_Witness ==
    \E e, f \in incrLog : e.floor = f.floor /\ e.ok /\ ~f.ok /\ e.val # f.val

\* C3: no step of any call lowers the stored currentPage or removes the summary.
C3_MonotoneCounter ==
    [][summary.exists =>
          summary'.exists /\ summary'.currentPage >= summary.currentPage]_vars

\* idempotentCreate was called again after a rollover and the counter kept its value
C3_Witness ==
    /\ created.outcome = "rejected"
    /\ summary.currentPage >= 1
    /\ \E a \in Appenders : app[a].pc = "abandoned"

\* C4: every data page in the store has a number between 0 and currentPage.
C4_NoPageBeyondCurrent ==
    \A q \in DOMAIN pages : summary.exists /\ 0 <= q /\ q <= summary.currentPage

\* the page currentPage was made by the rollover and an older page by recovery
C4_Witness ==
    /\ summary.currentPage >= 1
    /\ PageExists(summary.currentPage)
    /\ PageExists(0)

\* C5: what a resolved atomicAppend returned is the place of its value, so no
\* two resolved calls returned the same {page_id, sequence_id}.
C5_ReturnedPosition ==
    /\ \A r \in returned :
          /\ <<r.result.page_id, r.result.sequence_id>> \in StoredPositions
          /\ ValueAt(<<r.result.page_id, r.result.sequence_id>>) = r.val
    /\ \A r1, r2 \in returned : r1.result = r2.result => r1.val = r2.val

\* two calls resolved in the same over-full page
C5_Witness ==
    \E r1, r2 \in returned :
        /\ r1.val # r2.val
        /\ r1.result.page_id = r2.result.page_id
        /\ r1.result.sequence_id >= config
        /\ ValueAt(<<r1.result.page_id, r1.result.sequence_id>>) = r1.val

\* C6: with one caller appending one call after another, no page holds more
\* than maxElementPerPage elements, and between calls a page that holds
\* maxElementPerPage elements is followed by an existing page and currentPage
\* is the number of appends divided by maxElementPerPage (rounded down).
C6_SequentialRollover ==
    /\ \A p \in DOMAIN pages : Len(pages[p]) <= config
    /\ (SeqQuiet /\ summary.exists) =>
          /\ summary.currentPage = nextVal \div config
          /\ \A p \in DOMAIN pages :
                Len(pages[p]) = config => summary.currentPage >= p + 1 /\ PageExists(p + 1)

\* five appends with maxElementPerPage = 2 have moved currentPage to 2
C6_Witness ==
    /\ SeqQuiet
    /\ config = 2
    /\ nextVal = 5
    /\ summary.currentPage = 2
    /\ PageExists(2)
    /\ Len(pages[2]) = 1

\* the i-th value appended by the single caller, as a walk decorates it
ExpectedItem(i) ==
    [val |-> i, page_id |-> Str(i \div config), sequence_id |-> Str(i % config),
     resource_id_parent |-> ListId]

ExpectedLast(numberOfItems) ==
    [j \in 1..Min(numberOfItems, nextVal) |-> ExpectedItem(nextVal - j)]

PointerOf(item) == [page_id |-> item.page_id, sequence_id |-> item.sequence_id]

retrieveLastMostRecent(numberOfItems) ==
    retrieveNElement(summary.currentPage, Null, numberOfItems)

\* C8: with the one item of retrieveLastMostRecent(1) as pointer,
\* retrieveNextMostRecent(pointer, K) hands over a result that does not hold
\* that item and that, put after it, is retrieveLastMostRecent(1 + K).
C8_CursorRoundTrip ==
    (/\ rd.pc = "callback"
     /\ rd.op = "next"
     /\ rd.N >= 1
     /\ Len(retrieveLastMostRecent(1)) = 1
     /\ rd.pointer = PointerOf(retrieveLastMostRecent(1)[1]))
    => /\ \A i \in 1..Len(rd.out) : rd.out[i] # retrieveLastMostRecent(1)[1]
       /\ retrieveLastMostRecent(1) \o rd.out = retrieveLastMostRecent(1 + rd.N)

PositionOf(item) == <<parseInt(item.page_id), parseInt(item.sequence_id)>>

Older(pos1, pos2) == pos1[1] < pos2[1] \/ (pos1[1] = pos2[1] /\ pos1[2] < pos2[2])

\* C9: retrieveNextMostRecent with a pointer that names a stored element hands
\* over only elements stored before the pointer.
C9_StrictlyOlder ==
    (/\ rd.pc = "callback"
     /\ rd.op = "next"
     /\ PositionOf(rd.pointer) \in StoredPositions)
    => \A i \in 1..Len(rd.out) : Older(PositionOf(rd.out[i]), PositionOf(rd.pointer))

\* C10: every result handed to the callback is in strictly descending
\* (page_id, sequence_id) order.
C10_ResultOrdering ==
    rd.pc = "callback" =>
        \A i, j \in 1..Len(rd.out) :
            i < j => Older(PositionOf(rd.out[j]), PositionOf(rd.out[i]))

\* a result over two pages, delivered while an append is in flight and after
\* a newer element than its first item was stored
C10_Witness ==
    /\ rd.pc = "callback"
    /\ rd.op = "last"
    /\ Len(rd.out) >= 2
    /\ rd.out[1].page_id # rd.out[Len(rd.out)].page_id
    /\ \E a \in Appenders : InFlight(a)
    /\ \E pos \in StoredPositions : Older(PositionOf(rd.out[1]), pos)

\* where a walk under way or just delivered has started
WalkStart ==
    IF rd.op = "last" THEN [page_id |-> rd.start, sequence_id |-> Null]
                      ELSE getValidPointer(rd.pointer)

\* the stored positions the walk covers: the pages below its first page, and
\* the first page up to the cut
InWalkRange(pos) ==
    \/ pos[1] < WalkStart.page_id
    \/ /\ pos[1] = WalkStart.page_id
       /\ Truthy(WalkStart.sequence_id) => pos[2] < WalkStart.sequence_id.n

RECURSIVE Descending(_)
Descending(S) ==
    IF S = {} THEN <<>>
    ELSE LET m == CHOOSE x \in S : \A y \in S \ {x} : Older(y, x) IN
         <<m>> \o Descending(S \ {m})

ItemAt(pos) ==
    [val |-> ValueAt(pos), page_id |-> Str(pos[1]), sequence_id |-> Str(pos[2]),
     resource_id_parent |-> ListId]

Take(s, n) == SubSeq(s, 1, Min(n, Len(s)))

StoredInWalkRange ==
    LET d == Descending({pos \in StoredPositions : InWalkRange(pos)}) IN
    [i \in 1..Len(d) |-> ItemAt(d[i])]

\* C11: a walk over a store with absent pages (the current page not yet made,
\* or an older page removed) never fails; it hands its callback the first N of
\* the elements stored in the pages that exist, newest first, so an absent
\* page only takes its own items out of the result.
C11_BlankPageTolerance ==
    /\ rd.pc # "failed"
    /\ rd.pc = "callback" => rd.out = Take(StoredInWalkRange, rd.N)

\* the current page was never made, an older page was removed, and the
\* delivered result holds items from both sides of the removed page
C11_Witness ==
    /\ rd.pc = "callback"
    /\ rd.op = "last"
    /\ ~PageExists(summary.currentPage)
    /\ \E q \in 0..summary.currentPage : \E i, j \in 1..Len(rd.out) :
          /\ ~PageExists(q)
          /\ parseInt(rd.out[i].page_id) > q
          /\ parseInt(rd.out[j].page_id) < q

\* C12: on a fault-free store a call that finds its page missing (the counter
\* was bumped by a call that was then abandoned) makes the page and appends
\* again, the second append stores the value in that page, and no call that
\* reached the store ends rejected.
C12_AutomaticRecovery ==
    [][\A a \in Appenders :
          /\ (app[a].pc = "createMissing" /\ app'[a].pc \notin {"createMissing", "abandoned"})
                => /\ app'[a].pc = "append"
                   /\ app[a].currentPage \in DOMAIN pages'
          /\ (app[a].pc = "append" /\ app[a].attempt = 1
                                   /\ app'[a].pc \notin {"append", "abandoned"})
                => /\ app'[a].pc \in {"increment", "resolved"}
                   /\ \E pos \in StoredPositions' :
                         /\ pos[1] = app[a].currentPage
                         /\ pages'[pos[1]][pos[2] + 1].val = app[a].val
          /\ (InFlight(a) /\ app'[a].pc \in AppDone)
                => app'[a].pc \in {"resolved", "abandoned"}]_vars

\* the call that won the increment to page p was abandoned before it made the
\* page, and a later call has resolved with its value stored in page p
C12_Witness ==
    \E a \in Appenders : \E e \in incrLog : \E r \in returned :
        /\ app[a].pc = "abandoned"
        /\ e.val = app[a].val
        /\ e.ok
        /\ r.result.page_id = e.after
        /\ <<r.result.page_id, r.result.sequence_id>> \in StoredPositions
        /\ ValueAt(<<r.result.page_id, r.result.sequence_id>>) = r.val

\* C13: an idempotentCreate call on a list whose summary exists resolves, as
\* the first call did; no idempotentCreate call is rejected.
C13_CreateNeverRejected == created.outcome # "rejected"

\* C14: an idempotentCreate call on a list that exists changes neither the
\* stored summary (currentPage and the first call's metadata stay) nor any
\* data page.
C14_RepeatedCreateFrame ==
    [][(summary.exists /\ created'.outcome = "rejected" /\ app' = app)
          => (summary' = summary /\ pages' = pages)]_vars

\* a second create with another metadata came after a rollover
C14_Witness ==
    /\ created = [outcome |-> "rejected", metadata |-> "m2"]
    /\ summary.metadata = "m1"
    /\ summary.currentPage >= 1
    /\ PageExists(1)

\* the steps of the call of appender a
OwnStep(a) ==
    \/ AppendDataToPage(a)
    \/ CreateMissingPage(a)
    \/ IncreasePageCounter(a)
    \/ CreateNextPage(a)

\* the store operation the call of appender a makes next
NextOp(a) ==
    CASE app[a].pc = "append" -> "append"
      [] app[a].pc = "increment" -> "increment"
      [] OTHER -> "create"

\* C15: a call in flight can always take its next step, whatever the other
\* caller has done or left undone, and with the operation it is about to make
\* it has made one summary read, at most two list appends, at most two page
\* creations and at most one counter increment.
C15_LockFreeAppend ==
    \A a \in Appenders :
        InFlight(a) =>
            /\ ENABLED OwnStep(a)
            /\ Did(a, NextOp(a)).read = 1
            /\ Did(a, NextOp(a)).append <= 2
            /\ Did(a, NextOp(a)).create <= 2
            /\ Did(a, NextOp(a)).increment <= 1

\* one call is about to make its second page creation after its second
\* append found the page removed again, while the other call was abandoned
C15_Witness ==
    \E a, b \in Appenders :
        /\ app[a].pc = "createMissing"
        /\ app[a].ops.append = 2
        /\ app[a].ops.create = 1
        /\ app[b].pc = "abandoned"

Missing(v) == v.t \in {"undefined", "null"}

\* C16: retrieveNextMostRecent throws for a pointer exactly when the pointer
\* lacks page_id or sequence_id; a pointer that carries both, whatever their
\* values, is walked.
C16_RejectsOnlyMissingFields ==
    (rd.op = "next" /\ rd.pc # "idle")
    => (rd.pc = "thrown" <=> (Missing(rd.pointer.page_id) \/ Missing(rd.pointer.sequence_id)))

\* C17: on a list whose summary was never created getCurrentPage and
\* getPage(id, '_summary') end in an error instead of resolving.
C17_MissingSummaryIsAnError ==
    (got.op \in {"getCurrentPage", "getPage"} /\ got.key = SummaryKey /\ ~got.found)
    => got.outcome = "rejected"

\* C18: retrieve(id, p) of a data page resolves with {page_id: p, data}; data
\* is the page's data_list in stored order, the element at index i carrying
\* page_id p, sequence_id i and resource_id_parent id, and it is an empty
\* list when page p does not exist.
C18_RetrieveDecorates ==
    [][(got' # got /\ got'.op = "retrieve")
          => LET p == got'.key.n IN
             /\ got'.outcome = "resolved"
             /\ got'.page_id = Str(p)
             /\ got'.defined
             /\ got'.data = IF PageExists(p)
                            THEN [i \in 1..Len(pages[p]) |->
                                     [val |-> pages[p][i].val, page_id |-> Str(p),
                                      sequence_id |-> Str(i - 1), resource_id_parent |-> ListId]]
                            ELSE <<>>]_vars

\* C19: whatever integers configureMaximumNumberOfElementPerPage is called
\* with, config.maxElementPerPage is at least 1.
C19_MaxElementPerPageAtLeastOne == config >= 1

\* C20: no step removes a data page or changes an element a page holds; a
\* page that changes gains exactly one element at its end, so createNewPage on
\* a page that exists neither overwrites nor empties it.
C20_PagesAppendOnly ==
    [][\A p \in DOMAIN pages :
          /\ p \in DOMAIN pages'
          /\ \/ pages'[p] = pages[p]
             \/ /\ Len(pages'[p]) = Len(pages[p]) + 1
                /\ SubSeq(pages'[p], 1, Len(pages[p])) = pages[p]]_vars

\* a call whose first append found its page missing is about to run
\* createNewPage on that page, which by now exists and holds an element of
\* the other caller
C20_Witness ==
    \E a \in Appenders :
        /\ app[a].pc = "createMissing"
        /\ PageExists(app[a].currentPage)
        /\ \E pos \in StoredPositions :
              pos[1] = app[a].currentPage /\ ValueAt(pos) # app[a].val

\* C21: a call invoked after another call had resolved returns a position
\* after that call's position, whatever the other appender does meanwhile.
C21_RealTimeOrder ==
    \A x, y \in returned :
        x.val \in y.before =>
            Older(<<x.result.page_id, x.result.sequence_id>>,
                  <<y.result.page_id, y.result.sequence_id>>)

\* y was invoked after x had resolved, a call of the other appender that
\* overlaps both came in between them in the same page
C21_Witness ==
    \E x, y, z \in returned :
        /\ x.val \in y.before
        /\ x.val \notin z.before
        /\ z.val \notin y.before
        /\ x.result.page_id = y.result.page_id
        /\ z.result.page_id = y.result.page_id
        /\ x.result.sequence_id < z.result.sequence_id
        /\ z.result.sequence_id < y.result.sequence_id

\* C22: every page below currentPage exists and holds at least
\* maxElementPerPage elements, so only page currentPage can be missing.
C22_OlderPagesFull ==
    /\ config >= 1
    /\ summary.exists =>
          \A q \in 0..(summary.currentPage - 1) :
              PageExists(q) /\ Len(pages[q]) >= config

\* the call that moved the counter to 1 was abandoned before it made page 1,
\* and page 0 holds more than maxElementPerPage elements
C22_Witness ==
    /\ summary.currentPage = 1
    /\ ~PageExists(1)
    /\ config = 2
    /\ Len(pages[0]) = 3
    /\ \E a \in Appenders : app[a].pc = "abandoned"

\* C23: with K appenders that each wait for their call to end before the next
\* one, no page holds more than maxElementPerPage + K - 1 elements.
C23_BoundedOvershoot ==
    \A p \in DOMAIN pages : Len(pages[p]) <= config + Cardinality(Appenders) - 1

\* a page of two holds three elements, the counter has moved on and the
\* fourth element went to the next page
C23_Witness ==
    /\ config = 2
    /\ PageExists(0)
    /\ Len(pages[0]) = 3
    /\ summary.currentPage = 1
    /\ PageExists(1)
    /\ Len(pages[1]) = 1

C25_FailedAppendIsRetried ==
    [][\A a \in Appenders :
          (app[a].pc = "append" /\ app[a].attempt = 0 /\ app'[a].pc \notin {"append", "abandoned"})
             => app'[a].pc # "rejected"]_vars

\* C26: while the list has no summary no atomicAppend call gets past its
\* summary read: every call is rejected, no data page is made or changed, and
\* the summary appears only through idempotentCreate.
C26_AppendNeedsSummary ==
    [][~summary.exists
          => /\ \A a \in Appenders : app'[a].pc \in {"idle", "rejected"}
             /\ pages' = pages
             /\ pages = <<>>
             /\ summary' # summary => created' # created]_vars

\* both callers have had a call rejected and the store is still empty
C26_Witness ==
    /\ ~summary.exists
    /\ \A a \in Appenders : app[a].pc = "rejected"
    /\ pages = <<>>
    /\ nextVal = 0

\* C27: a walk writes nothing to the store; each of its steps reads one page,
\* it reads at most (start page + 1) pages and then hands its callback a result
\* of at most N items, once: the only thing that follows the delivery is the
\* callback's return.
C27_WalkDeliversOnce ==
    [][/\ (rd.pc = "walk" /\ rd' # rd)
            => /\ pages' = pages /\ summary' = summary
               /\ rd'.pc \in {"walk", "callback"}
               /\ rd'.reads = rd.reads + 1
               /\ rd'.reads <= rd.start + 1
               /\ rd'.pc = "walk" => rd'.page < rd.page /\ rd'.page >= 0
               /\ rd'.pc = "callback" => Len(rd'.out) <= rd.N
       /\ (rd.pc = "callback" /\ rd' # rd)
            => /\ pages' = pages /\ summary' = summary
               /\ rd'.pc = "idle"]_vars

\* a walk that started when currentPage was 1 has read both pages and
\* delivered, while appends went on and moved currentPage to 2
C27_Witness ==
    /\ rd.pc = "callback"
    /\ rd.op = "last"
    /\ rd.start = 1
    /\ rd.reads = 2
    /\ summary.currentPage = 2
    /\ Len(rd.out) >= 1
====
